---- MODULE Spec2Model ----
(***************************************************************************)
(* Barebone state management: the closure store of create-store.ts         *)
(* (createStore / useStore / actions) and the class store of               *)
(* state-store.ts (StateStore).                                            *)
(*                                                                         *)
(* A store is a one-key object { [name]: state } plus a Map of listeners.  *)
(* A write builds a candidate view { [name]: newState }, walks the Map in  *)
(* insertion order calling each listener's equalFn(newStore, store) and,   *)
(* when it answers true, its setState(newStore), and only then assigns     *)
(* store[name] = newState.  The walk is modelled one callback at a time,   *)
(* because equalFn, setState (for StateStore) and the reducers are user    *)
(* code that can re-enter the store.                                       *)
(***************************************************************************)
EXTENDS Integers, Sequences, FiniteSets, TLC

\* ------------------------------------------------------------------ bounds
MaxVal == 1
NumListeners == 2
MaxDepth == 2
MaxAsync == 2
MaxReentrant == 1

\* ------------------------------------------------------------------ values
\* options.name of the test suite (test/createStore.test.ts:19)
Name == "test"

Listeners == 1..NumListeners

\* A state object: its identity (ref) and its two fields (TestCounter).
initialState == [ref |-> 0, value |-> 0, isUpdating |-> FALSE]

NoState == [ref |-> -1, value |-> 0, isUpdating |-> FALSE]

\* The fields of a state object without its identity.
Content(s) == [value |-> s.value, isUpdating |-> s.isUpdating]

\* A number JSON cannot write, and what it becomes: JSON.stringify writes
\* Infinity (like NaN) as null.  Infinity stands outside 0..MaxVal, where
\* no modulus divides it, and null outside the numbers.
Infinity == -1
Null == -2

\* JSON.parse(JSON.stringify(v)) for a number v.
JsonNumber(v) == IF v = Infinity THEN Null ELSE v

\* A faulty variant: the hook starts from the store's initial state.
JsonCopy_InitialState(view) == [value |-> initialState.value, isUpdating |-> initialState.isUpdating]

\* JSON.parse(JSON.stringify(store)) : a new object tree with the same
\* fields; the copy keeps the values JSON can write and loses the identity
\* of the state.
JsonCopy(view) ==
    [value |-> JsonNumber(view.test.value), isUpdating |-> view.test.isUpdating]

\* Identity of the object `store` (one per createStore call) and of the
\* object literal `newStore` built by a write.
StoreId == 0

\* A faulty variant: a write hands the listeners the store object itself.
NewStoreId_Shared == StoreId

NewStoreId == 1

VARIABLES
    store,          \* the store object: [test |-> state]
    stateListeners, \* the Map, in insertion order: Seq of [key, equalFn]
    stack,          \* the JS call stack of store operations in progress
    pending,        \* async actions awaiting their reducer's promise (atCall is
                    \* history: the Map's entries when the action was called)
    started,        \* history: how many async actions have been called
    committed,      \* history: the async writes assigned, in order
    comp,           \* per component: its lifecycle and its useStore arguments
    storeState,     \* the React state [storeState, setStoreState] of one component
    folded,         \* history: the reducers of the sync calls so far, folded
    clean,          \* history: only top-level sync calls so far, none failed
    lastSubscribe,  \* history: the last call of StateStore.subscribe
    err             \* history: the last error thrown, what reached the caller,
                    \* and the async action it ended (0 if none)

vars == <<store, stateListeners, stack, pending, started, committed, comp, storeState,
         folded, clean, lastSubscribe, err>>

\* ------------------------------------------------------------- user code
\* The reducers of the test suite and README (increment, setCounterValue),
\* one that flips the second field and one that returns its argument.
\* `fresh` is the identity of the object literal a reducer returns.
ActionKeys == {"increment", "setCounterValue", "toggleUpdating", "keep"}

Payloads(key) == IF key = "setCounterValue" THEN 0..MaxVal ELSE {0}

Calls == {c \in ActionKeys \X (0..MaxVal) : c[2] \in Payloads(c[1])}

Reducer(key, state, payload, fresh) ==
    CASE key = "increment" ->
            [ref |-> fresh, value |-> state.value + 1, isUpdating |-> state.isUpdating]
      [] key = "setCounterValue" ->
            [ref |-> fresh, value |-> payload, isUpdating |-> state.isUpdating]
      [] key = "toggleUpdating" ->
            [ref |-> fresh, value |-> state.value, isUpdating |-> ~state.isUpdating]
      [] OTHER -> state

\* The select functions of the tests and README.
Selects == {"value", "array", "state", "store"}

\* A view is a store-shaped object: its identity and its single key.
View(id, state) == [id |-> id, test |-> state]

\* select(view).  Objects are compared by identity, so an object result is
\* its identity; an array result is a new array of the selected fields.
Select(sel, view) ==
    CASE sel = "value" -> [isArray |-> FALSE, v |-> <<view.test.value>>]
      [] sel = "array" -> [isArray |-> TRUE, v |-> <<view.test.value, view.test.isUpdating>>]
      [] sel = "state" -> [isArray |-> FALSE, v |-> <<view.test.ref>>]
      [] OTHER         -> [isArray |-> FALSE, v |-> <<view.id>>]

\* What the hook returns, select(storeState) (create-store.ts:152), by
\* value: storeState is a component's own copy of the store.
useStoreReturn(sel, copy) ==
    CASE sel = "value" -> <<copy.value>>
      [] sel = "array" -> <<copy.value, copy.isUpdating>>
      [] OTHER         -> <<copy.value, copy.isUpdating>>

\* A faulty variant: the comparison of two non-array results is inverted.
defaultStoreUpdateCheck_Inverted(oldStoreResult, newStoreResult) ==
    IF oldStoreResult.isArray /\ newStoreResult.isArray
    THEN IF 0 < Len(oldStoreResult.v)
         THEN IF oldStoreResult.v[1] # newStoreResult.v[1] THEN TRUE ELSE FALSE
         ELSE TRUE
    ELSE oldStoreResult.v = newStoreResult.v

\* create-store.ts:162-177.  The for loop returns in its first iteration,
\* whatever the comparison says; an empty array falls through to the
\* identity comparison of two distinct arrays.
defaultStoreUpdateCheck(oldStoreResult, newStoreResult) ==
    IF oldStoreResult.isArray /\ newStoreResult.isArray
    THEN IF 0 < Len(oldStoreResult.v)
         THEN IF oldStoreResult.v[1] # newStoreResult.v[1] THEN TRUE ELSE FALSE
         ELSE TRUE
    ELSE oldStoreResult.v # newStoreResult.v

\* equalFn of a listener entry.  "default" is the closure the hook builds
\* over select; "multiple" is the predicate of the test suite; "user" is
\* any other user-supplied predicate; "undefined" is a missing predicate.
Multiple == 2

DefaultFn(sel) == [kind |-> "default", select |-> sel]
MultipleFn == [kind |-> "multiple", select |-> "value"]
UserFn == [kind |-> "user", select |-> "value"]
UndefinedFn == [kind |-> "undefined", select |-> "value"]

\* useStore(select, equalFn?) as the components of the model call it.
Props == {[select |-> s, equalFn |-> DefaultFn(s)] : s \in Selects}
         \cup {[select |-> "value", equalFn |-> MultipleFn],
               [select |-> "value", equalFn |-> UserFn]}

\* listener.equalFn(newStore, store) for the predicates whose body is known.
EqualFn(fn, newStore, oldStore) ==
    CASE fn.kind = "default" ->
            defaultStoreUpdateCheck(Select(fn.select, oldStore), Select(fn.select, newStore))
      [] fn.kind = "multiple" -> newStore.test.value % Multiple = 0
      [] OTHER -> TRUE

\* ---------------------------------------------------------------- helpers
Keys(listeners) == {listeners[n].key : n \in 1..Len(listeners)}

\* stateListeners.has(key)
Has(listeners, key) == key \in Keys(listeners)

IndexOf(listeners, key) == CHOOSE n \in 1..Len(listeners) : listeners[n].key = key

\* stateListeners.set(key, entry) for a key that is absent: appended last.
MapSet(listeners, key, fn) == Append(listeners, [key |-> key, equalFn |-> fn])

\* A faulty variant: delete removes the oldest entry, whatever its key.
MapDelete_Oldest(listeners, key) ==
    IF Has(listeners, key) THEN Tail(listeners) ELSE listeners

\* A faulty variant: delete leaves the entry in the Map.
MapDelete_Keeps(listeners, key) == listeners

\* stateListeners.delete(key)
MapDelete(listeners, key) ==
    IF Has(listeners, key)
    THEN LET p == IndexOf(listeners, key)
         IN  SubSeq(listeners, 1, p - 1) \o SubSeq(listeners, p + 1, Len(listeners))
    ELSE listeners

\* A forEach in progress keeps its place when an entry is deleted: an entry
\* at or before the place it has reached is not visited again and the ones
\* after it still are.  A frame whose listener is running notes that the
\* listener was unregistered meanwhile.
AfterDelete(frames, listeners, key) ==
    IF Has(listeners, key)
    THEN LET p == IndexOf(listeners, key)
         IN  [n \in 1..Len(frames) |->
                [frames[n] EXCEPT !.i = IF p <= @ THEN @ - 1 ELSE @,
                                  !.stayed = @ \ {key},
                                  !.unregistered =
                                      @ \/ (/\ frames[n].phase \in {"equalFn", "setState"}
                                            /\ frames[n].listener.key = key)]]
    ELSE frames

\* The component whose React state the model follows.  Components differ
\* in nothing but their key, so it stands for any of them.
Observed == CHOOSE l \in Listeners : \A m \in Listeners : l <= m

Top == stack[Len(stack)]
Pop == SubSeq(stack, 1, Len(stack) - 1)
SetTop(f) == [stack EXCEPT ![Len(stack)] = f]

\* Object identities in use; a new object gets the least one that is free.
LiveRefs ==
    {store[Name].ref}
    \cup {stack[n].state.ref : n \in 1..Len(stack)}
    \cup {stack[n].newState.ref : n \in 1..Len(stack)}
    \cup {stack[n].prev.ref : n \in 1..Len(stack)}
    \cup {pending[n].state.ref : n \in 1..Len(pending)}

FreshRef == CHOOSE r \in 0..Cardinality(LiveRefs) :
                r \notin LiveRefs /\ \A q \in 0..(r - 1) : q \in LiveRefs

NoEntry == [key |-> 0, equalFn |-> UndefinedFn]
NoCall == [key |-> 0, equalFn |-> UndefinedFn, present |-> FALSE, returned |-> ""]
NoError == [thrown |-> "", caught |-> "", ticket |-> 0]

\* User code is running in the top frame: a user-supplied predicate, a
\* listener function subscribed to a StateStore, or a reducer.
InUserCode ==
    /\ stack # <<>>
    /\ Top.phase \in {"equalFn", "setState", "reducer"}

\* A store operation can start from the event loop, or from user code;
\* MaxDepth bounds the writes in progress at once and MaxReentrant the
\* operations the listeners of one write start.
TopLevel == stack = <<>>
CanCall == TopLevel \/ (InUserCode /\ Top.ops < MaxReentrant)
CanEnter == CanCall /\ Len(stack) < MaxDepth

\* The frames once the user code of the top one has started an operation.
Counted(frames) ==
    [n \in 1..Len(frames) |->
        IF n = Len(frames) THEN [frames[n] EXCEPT !.ops = @ + 1] ELSE frames[n]]


\* ------------------------------------------------------------------ state
Unmounted == [status |-> "unmounted",
              props |-> [select |-> "value", equalFn |-> DefaultFn("value")]]

\* createStore(options): the store object and an empty Map
\* (create-store.ts:77-78); no component has rendered yet.
Init ==
    /\ store = [test |-> initialState]
    /\ stateListeners = <<>>
    /\ stack = <<>>
    /\ pending = <<>>
    /\ started = 0
    /\ committed = <<>>
    /\ comp = [l \in Listeners |-> Unmounted]
    /\ storeState = Content(initialState)
    /\ folded = initialState
    /\ clean = TRUE
    /\ lastSubscribe = NoCall
    /\ err = NoError

\* The entries of the Map when the action that writes was called: for a
\* sync action the ones of now, for an async one those noted with its
\* promise (history).
AtCall(ticket) ==
    IF \E n \in 1..Len(pending) : pending[n].ticket = ticket
    THEN pending[CHOOSE n \in 1..Len(pending) : pending[n].ticket = ticket].atCall
    ELSE stateListeners

\* A call frame of a write.  phase: "forEach" between two listeners,
\* "equalFn" and "setState" while user code of the current listener runs,
\* "return" once the new state is assigned, "thrown" once user code has
\* thrown.  i counts the Map entries the
\* forEach has passed.  ticket numbers the async action that writes (0 for
\* a sync one).  prev, atStart, stayed and trace are history: the state
\* when the walk began, the entries then, the keys that stayed registered
\* since, and the calls made to the listeners; so are unregistered (the
\* listener being visited was deleted during its visit) and reentered (a
\* write started from a listener of this one has assigned).  ops counts
\* the operations its listeners have started, and args holds the
\* arguments of the user predicate that is running.
Frame(key, payload, state, newState, ticket, isClass) ==
    [atCall |-> AtCall(ticket), key |-> key, payload |-> payload, state |-> state, phase |-> "forEach",
     newState |-> newState, i |-> 0, listener |-> NoEntry,
     prev |-> store[Name], atStart |-> stateListeners,
     stayed |-> Keys(stateListeners), trace |-> <<>>,
     unregistered |-> FALSE, reentered |-> FALSE, ops |-> 0, args |-> <<>>,
     async |-> ticket > 0, ticket |-> ticket, class |-> isClass]

\* One call made to a listener: its predicate's answer, or its setState
\* with the argument passed ("view": newStore itself, "copy": a JSON copy).
Event(entry, what) == [key |-> entry.key, fn |-> entry.equalFn, what |-> what]

\* ------------------------------------------------------- updateStateHelper
\* A faulty variant: the component keeps the state it has.
SetStoreState_Stale(key, newState, react) == react

\* React's setStoreState(newStore): the component's state becomes the view
\* it was handed.
SetStoreState(key, newState, react) ==
    IF key = Observed THEN Content(newState) ELSE react

\* A faulty variant: the forEach walks the entries the Map had when the
\* action was called.
Entries_AtCall(frame) == frame.atCall

\* A faulty variant: the forEach walks a copy of the Map taken when the
\* write began.
Entries_Snapshot(frame) == frame.atStart

\* The entries the forEach walks: those of the Map as it is now.
Entries(frame) == stateListeners

\* A faulty variant: the forEach walks the Map from its last entry to its first.
NextEntry_Reversed(frame) == Entries(frame)[Len(Entries(frame)) - frame.i]

\* A faulty variant: every turn of the forEach takes the first entry.
NextEntry_First(frame) == Entries(frame)[1]

\* The entry the forEach visits next: the first one it has not passed.
NextEntry(frame) == Entries(frame)[frame.i + 1]

\* A faulty variant: the walk ends with the entries the Map had when it began.
HasNextEntry_AtStart(frame) ==
    frame.i < Len(Entries(frame)) /\ frame.i < Len(frame.atStart)

\* A faulty variant: the walk stops one entry short of the end of the Map.
HasNextEntry_StopsEarly(frame) == frame.i + 1 < Len(Entries(frame))

HasNextEntry(frame) == frame.i < Len(Entries(frame))

\* A faulty variant: the predicate's answer is ignored and every listener notified.
CallEqualFn_AnswerIgnored(fn, frame) == TRUE

\* listener.equalFn(newStore, store): the second argument is the store
\* object, which still holds the state from before the write.
CallArgs(frame) == <<View(NewStoreId, frame.newState), View(StoreId, store[Name])>>

CallEqualFn(fn, frame) == EqualFn(fn, CallArgs(frame)[1], CallArgs(frame)[2])

\* A faulty variant: a StateStore listener is handed a JSON copy whether or
\* not its entry has a predicate.
SetStateArg_AlwaysCopy(frame, hasFn) == IF frame.class THEN "copy" ELSE "view"

\* The argument of listener.setState(...): create-store.ts passes newStore
\* (lines 255, 258); state-store.ts passes a JSON copy when the entry has a
\* predicate (line 56) and newStore when it has none (line 59).
SetStateArg(frame, hasFn) == IF frame.class /\ hasFn THEN "copy" ELSE "view"

RECURSIVE forEach(_, _)
RECURSIVE Notify(_, _, _)

\* listener.setState(...).  A hook's setState is React's and returns at
\* once; a StateStore listener is a user function, which the model enters.
Notify(frame, react, hasFn) ==
    LET called == [frame EXCEPT
                     !.trace = Append(@, Event(frame.listener, SetStateArg(frame, hasFn)))]
    IN  IF frame.class
        THEN [frame |-> [called EXCEPT !.phase = "setState"], react |-> react]
        ELSE forEach(called, SetStoreState(frame.listener.key, frame.newState, react))

\* stateListeners.forEach(...) from the place the frame has reached, up to
\* the next call into user code or to the end of the Map
\* (create-store.ts:252-260, state-store.ts:53-61).
forEach(frame, react) ==
    IF ~HasNextEntry(frame)
    THEN [frame |-> [frame EXCEPT !.phase = "return", !.listener = NoEntry], react |-> react]
    ELSE LET listener == NextEntry(frame)
             visited == [frame EXCEPT !.i = @ + 1, !.listener = listener,
                                      !.unregistered = FALSE]
         IN  CASE listener.equalFn.kind = "undefined" -> Notify(visited, react, FALSE)
               [] listener.equalFn.kind = "user" ->
                     [frame |-> [visited EXCEPT !.phase = "equalFn",
                                                !.args = CallArgs(frame)],
                      react |-> react]
               [] OTHER ->
                     IF CallEqualFn(listener.equalFn, frame)
                     THEN Notify([visited EXCEPT !.trace = Append(@, Event(listener, "true"))],
                                 react, TRUE)
                     ELSE forEach([visited EXCEPT !.trace = Append(@, Event(listener, "false"))],
                                  react)

\* A faulty variant: the new state is assigned under a second key as well.
CommitStore_AddsKey(frame) == [k \in {Name, "state"} |-> frame.newState]

\* A faulty variant: the new state is assigned only if the store still holds
\* the state the write began with.
CommitStore_UnlessChanged(frame) ==
    IF store[Name] = frame.prev THEN [store EXCEPT ![Name] = frame.newState] ELSE store

\* A faulty variant: the assignment after the forEach is missing.
CommitStore_Missing(frame) == store

\* The assignment after the forEach: store[stateName] = newState
\* (create-store.ts:261, state-store.ts:62).
CommitStore(frame) == [store EXCEPT ![Name] = frame.newState]

\* A faulty variant: the write of an async action is not assigned to the
\* object createStore returned.
StoreAfter_SyncOnly(frame) ==
    IF frame.phase = "return" /\ ~frame.async THEN CommitStore(frame) ELSE store

\* A faulty variant: the new state is assigned also when a listener threw.
StoreAfter_OnThrow(frame) ==
    IF frame.phase \in {"return", "thrown"} THEN CommitStore(frame) ELSE store

\* A faulty variant: the new state is assigned before the listeners are done.
StoreAfter_Early(frame) == CommitStore(frame)

\* The store after a run of the forEach: untouched while listeners remain.
StoreAfter(frame) == IF frame.phase = "return" THEN CommitStore(frame) ELSE store

\* Where a run of the forEach leaves the write: in user code, or over, and
\* then the new state is assigned.
Outcome(below, r) ==
    /\ stack' = Append(below, r.frame)
    /\ storeState' = r.react
    /\ store' = StoreAfter(r.frame)
    /\ committed' = IF r.frame.phase = "return" /\ r.frame.async
                    THEN Append(committed, [ticket |-> r.frame.ticket,
                                            value |-> Content(r.frame.newState),
                                            started |-> started])
                    ELSE committed

\* The write goes on from `frame` above the frames `below`: the forEach
\* runs on, and when it is over the new state is assigned.
Proceed(below, frame) ==
    LET r == forEach(frame, storeState)
    IN  Outcome(below, r)

\* updateStateHelper(newState, store, stateName, stateListeners)
\* (create-store.ts:240-262).
updateStateHelper(key, payload, state, newState, ticket) ==
    Proceed(Counted(stack), Frame(key, payload, state, newState, ticket, FALSE))

\* A user-supplied predicate returns `result`; on true setState is called
\* (create-store.ts:254-256, state-store.ts:55-57).
equalFnReturn(result) ==
    /\ stack # <<>>
    /\ Top.phase = "equalFn"
    /\ LET answered == [Top EXCEPT !.phase = "forEach", !.args = <<>>,
                          !.trace = Append(@, Event(Top.listener, IF result THEN "true" ELSE "false"))]
       IN  IF result
           THEN LET r == Notify(answered, storeState, TRUE)
                IN  Outcome(Pop, r)
           ELSE Proceed(Pop, answered)
    /\ UNCHANGED <<stateListeners, pending, started, comp, folded, clean, lastSubscribe, err>>

\* A StateStore listener returns: back in the forEach.
setStateReturn ==
    /\ stack # <<>>
    /\ Top.phase = "setState"
    /\ Proceed(Pop, [Top EXCEPT !.phase = "forEach"])
    /\ UNCHANGED <<stateListeners, pending, started, comp, folded, clean, lastSubscribe, err>>

\* A faulty variant: the store catches what user code throws.
Propagate_Swallowed(error) == ""

\* What reaches the caller of a store operation when user code throws:
\* there is no try / catch in create-store.ts or state-store.ts, so the
\* error itself.
Propagate(error) == error

\* A faulty variant: a listener that throws is skipped and the forEach
\* goes on.
Abort_Isolated(frame) == forEach([frame EXCEPT !.phase = "forEach", !.args = <<>>], storeState)

\* User code of the listener being visited throws: the forEach and the
\* function that runs it are left at once, before the assignment
\* (create-store.ts:252-261, state-store.ts:53-62).
Abort(frame) ==
    [frame |-> [frame EXCEPT !.phase = "thrown", !.args = <<>>], react |-> storeState]

\* The predicate of the listener being visited throws.
equalFnThrow ==
    /\ stack # <<>>
    /\ Top.phase = "equalFn"
    /\ Outcome(Pop, Abort(Top))
    /\ err' = [thrown |-> "equalFn", caught |-> "", ticket |-> Top.ticket]
    /\ UNCHANGED <<stateListeners, pending, started, comp, folded, clean, lastSubscribe>>

\* The function of a StateStore listener throws.
setStateThrow ==
    /\ stack # <<>>
    /\ Top.phase = "setState"
    /\ Outcome(Pop, Abort(Top))
    /\ err' = [thrown |-> "setState", caught |-> "", ticket |-> Top.ticket]
    /\ UNCHANGED <<stateListeners, pending, started, comp, folded, clean, lastSubscribe>>

\* The error leaves the write.  Its caller is the event loop's, or user
\* code of an outer write, which it leaves in turn.
raise ==
    /\ stack # <<>>
    /\ Top.phase = "thrown"
    /\ stack' = [n \in 1..(Len(stack) - 1) |->
                    IF n = Len(stack) - 1
                    THEN [stack[n] EXCEPT !.phase = "thrown", !.args = <<>>]
                    ELSE stack[n]]
    /\ err' = IF Len(stack) = 1 THEN [err EXCEPT !.caught = Propagate(err.thrown)] ELSE err
    /\ UNCHANGED <<store, stateListeners, pending, started, committed, comp, storeState,
                   folded, clean, lastSubscribe>>

\* updateStateHelper / updateState and the action that called it return.
return ==
    /\ stack # <<>>
    /\ Top.phase = "return"
    /\ stack' = [n \in 1..(Len(stack) - 1) |->
                    IF n = Len(stack) - 1 THEN [stack[n] EXCEPT !.reentered = TRUE]
                    ELSE stack[n]]
    /\ UNCHANGED <<store, stateListeners, pending, started, committed, comp, storeState,
                   folded, clean, lastSubscribe, err>>

\* ------------------------------------------------------- the hook (React)
\* First render of a component: useState(JSON.parse(JSON.stringify(store)))
\* (create-store.ts:129-131) and return select(storeState).
useStoreSelect(l, props) ==
    /\ TopLevel
    /\ comp[l].status = "unmounted"
    /\ comp' = [comp EXCEPT ![l] = [status |-> "rendered", props |-> props]]
    /\ storeState' = IF l = Observed THEN JsonCopy(View(StoreId, store[Name])) ELSE storeState
    /\ UNCHANGED <<store, stateListeners, stack, pending, started, committed, folded, clean, lastSubscribe, err>>

\* A faulty variant: the effect takes a new copy of the store when it
\* registers the component.
useEffect_Resyncs(l) ==
    /\ TopLevel
    /\ comp[l].status = "rendered"
    /\ stateListeners' = IF ~Has(stateListeners, l)
                         THEN MapSet(stateListeners, l, comp[l].props.equalFn)
                         ELSE stateListeners
    /\ comp' = [comp EXCEPT ![l].status = "mounted"]
    /\ storeState' = IF l = Observed THEN JsonCopy(View(StoreId, store[Name])) ELSE storeState
    /\ UNCHANGED <<store, stack, pending, started, committed, folded, clean, lastSubscribe, err>>

\* The effect after the first render (create-store.ts:135-145).
useEffect(l) ==
    /\ TopLevel
    /\ comp[l].status = "rendered"
    /\ stateListeners' = IF ~Has(stateListeners, l)
                         THEN MapSet(stateListeners, l, comp[l].props.equalFn)
                         ELSE stateListeners
    /\ comp' = [comp EXCEPT ![l].status = "mounted"]
    /\ UNCHANGED <<store, stack, pending, started, committed, storeState, folded, clean, lastSubscribe, err>>

\* The effect's cleanup when the component unmounts (create-store.ts:147-149).
cleanup(l) ==
    /\ TopLevel
    /\ comp[l].status = "mounted"
    /\ stateListeners' = MapDelete(stateListeners, l)
    /\ comp' = [comp EXCEPT ![l] = Unmounted]
    /\ UNCHANGED <<store, stack, pending, started, committed, storeState, folded, clean, lastSubscribe, err>>

\* ---------------------------------------------------------- sync actions
\* A faulty variant: the reducer is handed the state the store began with.
syncAction_InitialState(key, payload) ==
    /\ CanEnter
    /\ key = "increment" => store[Name].value < MaxVal
    /\ updateStateHelper(key, payload, initialState,
                         Reducer(key, initialState, payload, FreshRef), 0)
    /\ clean' = (clean /\ TopLevel)
    /\ folded' = IF clean /\ TopLevel THEN Reducer(key, folded, payload, 0) ELSE initialState
    /\ UNCHANGED <<stateListeners, pending, started, comp, lastSubscribe, err>>

\* syncAction(...payload): updateStoreWrapper(actions[key](store[stateName],
\* ...payload)) (create-store.ts:221-223).
syncAction(key, payload) ==
    /\ CanEnter
    /\ key = "increment" => store[Name].value < MaxVal
    /\ updateStateHelper(key, payload, store[Name],
                         Reducer(key, store[Name], payload, FreshRef), 0)
    /\ clean' = (clean /\ TopLevel)
    /\ folded' = IF clean /\ TopLevel THEN Reducer(key, folded, payload, 0) ELSE initialState
    /\ UNCHANGED <<stateListeners, pending, started, comp, lastSubscribe, err>>

\* syncAction(...payload) when the reducer throws (create-store.ts:221-223):
\* the argument of updateStoreWrapper is evaluated first, so the call of
\* updateStoreWrapper is never made.
syncActionThrow(key, payload) ==
    /\ CanEnter
    /\ err' = [thrown |-> "reducer", caught |-> Propagate("reducer"), ticket |-> 0]
    /\ clean' = FALSE
    /\ folded' = initialState
    /\ UNCHANGED <<store, stateListeners, stack, pending, started, committed, comp,
                   storeState, lastSubscribe>>

\* ---------------------------------------------- a reducer as user code
\* syncAction(...payload) up to the call of the reducer: actions[key] is
\* entered with store[stateName] as its state parameter
\* (create-store.ts:221-223).  Until it returns the frame holds the
\* parameter in `state`; the reducer may call the store's public actions.
syncActionCall(key, payload) ==
    /\ CanEnter
    /\ key = "increment" => store[Name].value < MaxVal
    /\ stack' = Append(Counted(stack),
                       [Frame(key, payload, store[Name], store[Name], 0, FALSE)
                            EXCEPT !.phase = "reducer"])
    /\ clean' = FALSE
    /\ folded' = initialState
    /\ UNCHANGED <<store, stateListeners, pending, started, committed, comp, storeState,
                   lastSubscribe, err>>

\* A faulty variant: the reducer computes from the state the store holds
\* when it returns.
ReducerResult_FromStore(frame) == Reducer(frame.key, store[Name], frame.payload, FreshRef)

\* What the reducer returns: computed from its state parameter, which no
\* write replaces (README.md:50-53).
ReducerResult(frame) == Reducer(frame.key, frame.state, frame.payload, FreshRef)

\* The reducer returns and updateStoreWrapper is called with its result
\* (create-store.ts:221-223, 240-262).
syncActionReturn ==
    /\ stack # <<>>
    /\ Top.phase = "reducer"
    /\ Proceed(Pop, [Frame(Top.key, Top.payload, Top.state, ReducerResult(Top), 0, FALSE)
                       EXCEPT !.reentered = Top.reentered, !.ops = Top.ops])
    /\ UNCHANGED <<stateListeners, pending, started, comp, folded, clean, lastSubscribe, err>>

\* --------------------------------------------------------- async actions
\* A faulty variant: the write is made when the action is called.
asyncAction_Eager(key, payload) ==
    /\ TopLevel
    /\ started < MaxAsync
    /\ key = "increment" => store[Name].value < MaxVal
    /\ updateStateHelper(key, payload, store[Name],
                         Reducer(key, store[Name], payload, FreshRef), started + 1)
    /\ started' = started + 1
    /\ UNCHANGED <<stateListeners, pending, comp, folded, clean, lastSubscribe, err>>

\* asyncAction(...payload), up to its await (create-store.ts:215-216): the
\* reducer is called with store[stateName] as it is now, and the call
\* returns a promise.
asyncAction(key, payload) ==
    /\ TopLevel
    /\ started < MaxAsync
    /\ key = "increment" => store[Name].value < MaxVal
    /\ pending' = Append(pending, [key |-> key, payload |-> payload, state |-> store[Name],
                                   ticket |-> started + 1, atCall |-> stateListeners])
    /\ started' = started + 1
    /\ clean' = FALSE
    /\ folded' = initialState
    /\ UNCHANGED <<store, stateListeners, stack, committed, comp, storeState, lastSubscribe, err>>

\* A faulty variant: the oldest promise is taken for the fulfilled one.
Without_Oldest(seq, n) == Tail(seq)

\* The promises in flight but the n-th.
Without(seq, n) == SubSeq(seq, 1, n - 1) \o SubSeq(seq, n + 1, Len(seq))

\* A faulty variant: the reducer is applied to the state current when its
\* promise resolves.
AsyncResult_AtResolve(p) == Reducer(p.key, store[Name], p.payload, FreshRef)

\* The value the reducer's promise fulfils with: the reducer applied to
\* the state it was called with.
AsyncResult(p) == Reducer(p.key, p.state, p.payload, FreshRef)

\* The reducer's promise fulfils: the await resumes in a job of its own
\* and updateStoreWrapper(result) does the write (create-store.ts:216).
asyncResolve(n) ==
    /\ TopLevel
    /\ n \in 1..Len(pending)
    /\ updateStateHelper(pending[n].key, pending[n].payload, pending[n].state,
                         AsyncResult(pending[n]), pending[n].ticket)
    /\ pending' = Without(pending, n)
    /\ UNCHANGED <<stateListeners, started, comp, folded, clean, lastSubscribe, err>>

\* A faulty variant: the write is made with whatever the await gave.
asyncReject_CommitsAnyway(n) ==
    /\ TopLevel
    /\ n \in 1..Len(pending)
    /\ updateStateHelper(pending[n].key, pending[n].payload, pending[n].state,
                         AsyncResult(pending[n]), pending[n].ticket)
    /\ pending' = Without(pending, n)
    /\ err' = [thrown |-> "rejected", caught |-> Propagate("rejected"),
               ticket |-> pending[n].ticket]
    /\ UNCHANGED <<stateListeners, started, comp, folded, clean, lastSubscribe>>

\* The reducer's promise rejects: the await throws inside asyncAction,
\* updateStoreWrapper is not called, and the promise asyncAction returned
\* rejects with the same error (create-store.ts:215-217).
asyncReject(n) ==
    /\ TopLevel
    /\ n \in 1..Len(pending)
    /\ pending' = Without(pending, n)
    /\ err' = [thrown |-> "rejected", caught |-> Propagate("rejected"),
               ticket |-> pending[n].ticket]
    /\ UNCHANGED <<store, stateListeners, stack, started, committed, comp, storeState,
                   folded, clean, lastSubscribe>>

\* ------------------------------------------- a setter-style async reducer
\* The arguments asyncAction calls the reducer with:
\* actions[key](store[stateName], ...payload) (create-store.ts:216).
AsyncArgs(state, payload) ==
    <<[type |-> "object", state |-> state], [type |-> "number", n |-> payload]>>

\* A parameter of a JS function: the argument in its place, or undefined.
Arg(args, n) == IF n <= Len(args) THEN args[n] ELSE [type |-> "undefined"]

\* setCounterValueAsync of the test suite (createStore.test.ts:148-151),
\*   async (setState, state, value) => {
\*     const result = await Promise.resolve(value);
\*     setState({ ...state, value: result });
\*   }
\* from its await on: calling a first argument that is no function throws
\* a TypeError, which rejects the reducer's promise.
setCounterValueAsync(args) ==
    LET setState == Arg(args, 1)
        state == Arg(args, 2)
        value == Arg(args, 3)
    IN  IF setState.type = "function"
        THEN [outcome |-> "setState", state |-> state, value |-> value]
        ELSE [outcome |-> "TypeError"]

\* asyncActions.setCounterValueAsync(v), up to the first await of the
\* reducer (create-store.ts:215-216).
asyncSetter(v) ==
    /\ TopLevel
    /\ started < MaxAsync
    /\ pending' = Append(pending, [key |-> "setCounterValueAsync", payload |-> v,
                                   state |-> store[Name], ticket |-> started + 1,
                                   atCall |-> stateListeners])
    /\ started' = started + 1
    /\ clean' = FALSE
    /\ folded' = initialState
    /\ UNCHANGED <<store, stateListeners, stack, committed, comp, storeState,
                   lastSubscribe, err>>

\* The reducer resumes after its await and calls its first parameter.
\* With the arguments of create-store.ts:216 that is the state object:
\* the call throws, the reducer's promise rejects and, as in asyncReject,
\* so does the promise of the public action, with no write.
asyncSetterResume(n) ==
    /\ TopLevel
    /\ n \in 1..Len(pending)
    /\ pending[n].key = "setCounterValueAsync"
    /\ LET r == setCounterValueAsync(AsyncArgs(pending[n].state, pending[n].payload))
       IN  /\ r.outcome = "TypeError"
           /\ err' = [thrown |-> r.outcome, caught |-> Propagate(r.outcome),
                      ticket |-> pending[n].ticket]
    /\ pending' = Without(pending, n)
    /\ UNCHANGED <<store, stateListeners, stack, started, committed, comp, storeState,
                   folded, clean, lastSubscribe>>

\* ------------------------------------------------------------ StateStore
\* The listeners of a StateStore are user functions; their predicate is
\* user code too, or missing.
ClassFns == {UserFn, UndefinedFn}

\* The states the callers of updateState pass.
ClassStates == {[value |-> v, isUpdating |-> b] : v \in 0..MaxVal, b \in BOOLEAN}

\* A faulty variant: the predicate of an entry that is present is replaced.
Subscribed_Overwrites(listeners, key, fn) ==
    IF Has(listeners, key)
    THEN [listeners EXCEPT ![IndexOf(listeners, key)].equalFn = fn]
    ELSE MapSet(listeners, key, fn)

\* The Map after subscribe: nothing is set when the listener is present
\* (state-store.ts:27-33).
Subscribed(listeners, key, fn) ==
    IF Has(listeners, key) THEN listeners ELSE MapSet(listeners, key, fn)

\* What subscribe returns: nothing (a bare `return;`) when the listener is
\* present, else the function that unsubscribes it (state-store.ts:27-37).
SubscribeReturn(listeners, key) ==
    IF Has(listeners, key) THEN "undefined" ELSE "unsubscribe"

\* subscribe(storeChangeListener, equalFn) (state-store.ts:23-38).
subscribe(l, fn) ==
    /\ CanCall
    /\ stateListeners' = Subscribed(stateListeners, l, fn)
    /\ stack' = Counted(stack)
    /\ lastSubscribe' = [key |-> l, equalFn |-> fn, present |-> Has(stateListeners, l),
                         returned |-> SubscribeReturn(stateListeners, l)]
    /\ UNCHANGED <<store, pending, started, committed, comp, storeState, folded, clean, err>>

\* unsubscribe(storeChangeListener) (state-store.ts:40-42).
unsubscribe(l) ==
    /\ CanCall
    /\ stateListeners' = MapDelete(stateListeners, l)
    /\ stack' = AfterDelete(Counted(stack), stateListeners, l)
    /\ UNCHANGED <<store, pending, started, committed, comp, storeState, folded, clean,
                   lastSubscribe, err>>

\* updateState(newState) (state-store.ts:48-63).
updateState(c) ==
    /\ CanEnter
    /\ Proceed(Counted(stack), Frame("updateState", 0, store[Name],
                            [ref |-> FreshRef, value |-> c.value, isUpdating |-> c.isUpdating],
                            0, TRUE))
    /\ UNCHANGED <<stateListeners, pending, started, comp, folded, clean, lastSubscribe, err>>

\* ------------------------------------ the store of src/unnamed/part_003
\* An earlier createStore.  createActions and createUseStoreHook are each
\* handed the object `state` (part_003:68-74); an action ends with
\* `state = newState`, which rebinds the parameter of createActions and
\* leaves the hook's object as it was.  Here `store` is the binding of the
\* actions and HookState the object of the hook.

\* A faulty variant: the hook reads the object the actions hold now.
HookState_Live == store

\* The `state` of createUseStoreHook: the object createStore built
\* (part_003:63), which nothing assigns to.
HookState == [test |-> initialState]

\* useStore(select, equalFn?) as components call it here: without a
\* predicate, or with one whose body is known.
Props003 == {[select |-> "value", equalFn |-> fn] :
                fn \in {UndefinedFn, MultipleFn, DefaultFn("value")}}

\* The Map after a render (part_003:108-117): an entry without predicate
\* is set if the key is absent, and a predicate that was passed is stored
\* in the entry, in place of the one it had.
Registered003(listeners, key, fn) ==
    LET present == IF Has(listeners, key) THEN listeners
                   ELSE MapSet(listeners, key, UndefinedFn)
    IN  IF fn # UndefinedFn
        THEN [present EXCEPT ![IndexOf(present, key)].equalFn = fn]
        ELSE present

\* First render of a component (part_003:101-119): useState(state) with
\* the hook's object itself, and the registration.
useStoreSelect003(l, props) ==
    /\ TopLevel
    /\ comp[l].status = "unmounted"
    /\ comp' = [comp EXCEPT ![l] = [status |-> "rendered", props |-> props]]
    /\ storeState' = IF l = Observed THEN Content(HookState[Name]) ELSE storeState
    /\ stateListeners' = Registered003(stateListeners, l, props.equalFn)
    /\ UNCHANGED <<store, stack, pending, started, committed, folded, clean, lastSubscribe, err>>

\* A later render of the component, with the props of that render:
\* useState keeps the component's state.
rerender003(l, props) ==
    /\ TopLevel
    /\ comp[l].status = "rendered"
    /\ comp' = [comp EXCEPT ![l].props = props]
    /\ stateListeners' = Registered003(stateListeners, l, props.equalFn)
    /\ UNCHANGED <<store, stack, pending, started, committed, storeState, folded, clean,
                   lastSubscribe, err>>

\* A faulty variant: unmounting deletes the component's entry.
unmount003_Deletes(l) ==
    /\ TopLevel
    /\ comp[l].status = "rendered"
    /\ comp' = [comp EXCEPT ![l].status = "gone"]
    /\ stateListeners' = MapDelete(stateListeners, l)
    /\ UNCHANGED <<store, stack, pending, started, committed, storeState, folded, clean,
                   lastSubscribe, err>>

\* The component unmounts: the hook has no effect and no cleanup, so
\* nothing of the store changes.
unmount003(l) ==
    /\ TopLevel
    /\ comp[l].status = "rendered"
    /\ comp' = [comp EXCEPT ![l].status = "gone"]
    /\ UNCHANGED <<store, stateListeners, stack, pending, started, committed, storeState,
                   folded, clean, lastSubscribe, err>>

\* updateLocalStates(state, newState, stateListeners) (part_003:188-204),
\* and the `state = newState` that follows it (part_003:174).
updateLocalStates(key, payload, state, newState) ==
    Proceed(Counted(stack), Frame(key, payload, state, newState, 0, FALSE))

\* A sync action (part_003:169-174).
syncAction003(key, payload) ==
    /\ CanEnter
    /\ key = "increment" => store[Name].value < MaxVal
    /\ updateLocalStates(key, payload, store[Name],
                         Reducer(key, store[Name], payload, FreshRef))
    /\ clean' = (clean /\ TopLevel)
    /\ folded' = IF clean /\ TopLevel THEN Reducer(key, folded, payload, 0) ELSE initialState
    /\ UNCHANGED <<stateListeners, pending, started, comp, lastSubscribe, err>>

\* ---------------------------------------------------------- specification
\* The closure store used from components: renders, mounts, unmounts and
\* synchronous actions called from the event loop; the predicates are the
\* hook's default and the one of the test suite.
Next ==
    \/ \E l \in Listeners, props \in Props :
          props.equalFn.kind # "user" /\ useStoreSelect(l, props)
    \/ \E l \in Listeners : useEffect(l)
    \/ \E l \in Listeners : cleanup(l)
    \/ \E c \in Calls : TopLevel /\ syncAction(c[1], c[2])
    \/ return

Spec == Init /\ [][Next]_vars

\* The closure store with reducers that may throw.
NextError ==
    \/ \E l \in Listeners, props \in Props :
          props.equalFn.kind # "user" /\ useStoreSelect(l, props)
    \/ \E l \in Listeners : useEffect(l)
    \/ \E l \in Listeners : cleanup(l)
    \/ \E c \in Calls : TopLevel /\ syncAction(c[1], c[2])
    \/ \E c \in Calls : TopLevel /\ syncActionThrow(c[1], c[2])
    \/ return

SpecError == Init /\ [][NextError]_vars

\* The closure store with asynchronous actions in flight: up to MaxAsync
\* calls, resolving in any order, between synchronous actions; one
\* component subscribes to the count.
AsyncProps == {p \in Props : p.equalFn = DefaultFn("value")}

AsyncCalls == {c \in Calls : c[1] # "keep"}

NextAsync ==
    \/ \E props \in AsyncProps : useStoreSelect(Observed, props)
    \/ useEffect(Observed)
    \/ cleanup(Observed)
    \/ \E c \in AsyncCalls : TopLevel /\ syncAction(c[1], c[2])
    \/ \E c \in AsyncCalls : asyncAction(c[1], c[2])
    \/ \E n \in 1..MaxAsync : asyncResolve(n)
    \/ return

SpecAsync == Init /\ [][NextAsync]_vars

\* The closure store with asynchronous actions whose promise may reject,
\* between synchronous actions.
RejectCalls == {c \in Calls : c[1] = "setCounterValue"}

NextReject ==
    \/ \E props \in AsyncProps : useStoreSelect(Observed, props)
    \/ useEffect(Observed)
    \/ cleanup(Observed)
    \/ \E c \in RejectCalls : TopLevel /\ syncAction(c[1], c[2])
    \/ \E c \in RejectCalls : asyncAction(c[1], c[2])
    \/ \E n \in 1..MaxAsync : asyncResolve(n)
    \/ \E n \in 1..MaxAsync : asyncReject(n)
    \/ return

SpecReject == Init /\ [][NextReject]_vars

\* The store of the test suite's async tests: its only action is the
\* setter-style setCounterValueAsync (createStore.test.ts:144-153).
NextSetter ==
    \/ \E l \in Listeners, props \in AsyncProps : useStoreSelect(l, props)
    \/ \E l \in Listeners : useEffect(l)
    \/ \E l \in Listeners : cleanup(l)
    \/ \E v \in 0..MaxVal : asyncSetter(v)
    \/ \E n \in 1..MaxAsync : asyncSetterResume(n)

SpecSetter == Init /\ [][NextSetter]_vars

\* Components that mount and unmount while async actions are in flight.
NextUnmount ==
    \/ \E l \in Listeners, props \in AsyncProps : useStoreSelect(l, props)
    \/ \E l \in Listeners : useEffect(l)
    \/ \E l \in Listeners : cleanup(l)
    \/ \E c \in AsyncCalls : asyncAction(c[1], c[2])
    \/ \E n \in 1..MaxAsync : asyncResolve(n)
    \/ return

SpecUnmount == Init /\ [][NextUnmount]_vars

\* Async actions racing each other and nothing else: every promise
\* fulfils.  A fulfilled promise's job runs as soon as the call stack is
\* empty, and a write that has assigned returns.
NextRace ==
    \/ \E props \in AsyncProps : useStoreSelect(Observed, props)
    \/ useEffect(Observed)
    \/ cleanup(Observed)
    \/ \E c \in AsyncCalls : asyncAction(c[1], c[2])
    \/ \E n \in 1..MaxAsync : asyncResolve(n)
    \/ return

SpecRace ==
    /\ Init
    /\ [][NextRace]_vars
    /\ \A n \in 1..MaxAsync : SF_vars(asyncResolve(n))
    /\ WF_vars(return)

\* A StateStore whose listeners subscribe, unsubscribe and write, from the
\* event loop or from inside a predicate or a listener function.
NextClass ==
    \/ \E l \in Listeners, fn \in ClassFns : subscribe(l, fn)
    \/ \E l \in Listeners : unsubscribe(l)
    \/ \E c \in ClassStates : updateState(c)
    \/ \E result \in BOOLEAN : equalFnReturn(result)
    \/ setStateReturn
    \/ return

SpecClass == Init /\ [][NextClass]_vars

\* A StateStore whose predicates and listener functions may throw; the
\* operations start from the event loop.
NextClassError ==
    \/ \E l \in Listeners, fn \in ClassFns : TopLevel /\ subscribe(l, fn)
    \/ \E l \in Listeners : TopLevel /\ unsubscribe(l)
    \/ \E c \in ClassStates : TopLevel /\ updateState(c)
    \/ \E result \in BOOLEAN : equalFnReturn(result)
    \/ setStateReturn
    \/ equalFnThrow
    \/ setStateThrow
    \/ raise
    \/ return

SpecClassError == Init /\ [][NextClassError]_vars

\* The closure store with reducers that call the store's own actions while
\* they run: a sync action is called from the event loop or from a
\* reducer in progress.
NextNested ==
    \/ \E l \in Listeners, props \in Props :
          props.equalFn.kind # "user" /\ useStoreSelect(l, props)
    \/ \E l \in Listeners : useEffect(l)
    \/ \E l \in Listeners : cleanup(l)
    \/ \E c \in Calls : syncAction(c[1], c[2])
    \/ \E c \in Calls : TopLevel /\ syncActionCall(c[1], c[2])
    \/ syncActionReturn
    \/ return

SpecNested == Init /\ [][NextNested]_vars

\* The closure store with components whose predicate is user code that
\* may call the store's sync actions while a write is in progress.
ReentrantProps == {p \in Props : p.equalFn \in {DefaultFn("value"), UserFn}}

NextReentrant ==
    \/ \E l \in Listeners, props \in ReentrantProps : useStoreSelect(l, props)
    \/ \E l \in Listeners : useEffect(l)
    \/ \E l \in Listeners : cleanup(l)
    \/ \E c \in Calls : syncAction(c[1], c[2])
    \/ \E result \in BOOLEAN : equalFnReturn(result)
    \/ return

SpecReentrant == Init /\ [][NextReentrant]_vars

\* The closure store written with every state a caller can pass, a count
\* JSON cannot write included; increment is left out, for the model's
\* Infinity is not a number to add to.
EquivCalls == {c \in Calls : c[1] # "increment"} \cup {<<"setCounterValue", Infinity>>}

NextEquiv ==
    \/ \E l \in Listeners, props \in Props :
          props.equalFn.kind # "user" /\ useStoreSelect(l, props)
    \/ \E l \in Listeners : useEffect(l)
    \/ \E l \in Listeners : cleanup(l)
    \/ \E c \in EquivCalls : TopLevel /\ syncAction(c[1], c[2])
    \/ return

SpecEquiv == Init /\ [][NextEquiv]_vars

\* The store of src/unnamed/part_003 used from components.
NextPart003 ==
    \/ \E l \in Listeners, props \in Props003 : useStoreSelect003(l, props)
    \/ \E l \in Listeners, props \in Props003 : rerender003(l, props)
    \/ \E l \in Listeners : unmount003(l)
    \/ \E c \in Calls : TopLevel /\ syncAction003(c[1], c[2])
    \/ return

SpecPart003 == Init /\ [][NextPart003]_vars

\* ------------------------------------------------------------ properties
\* A write that has assigned the new state and is about to return.
Completed == stack # <<>> /\ Top.phase = "return"

\* The answers a listener's predicate gave, and the setState calls it got,
\* in one write.
Answers(trace, key) ==
    SelectSeq(trace, LAMBDA e : e.key = key /\ e.what \in {"true", "false"})

Notifications(trace, key) ==
    SelectSeq(trace, LAMBDA e : e.key = key /\ e.what \in {"view", "copy"})

EntryOf(listeners, key) == listeners[IndexOf(listeners, key)]

\* C1: after any sequence of top-level synchronous action calls the state
\* read from store[name] is the left fold of the called reducers, in call
\* order, over initialState.
C1_SyncCallsFold ==
    (clean /\ (TopLevel \/ Completed)) => Content(store[Name]) = Content(folded)

\* Two calls at least have been folded, the first field and the second one
\* both changed.
C1_Witness ==
    /\ clean /\ TopLevel
    /\ folded.value = MaxVal /\ folded.isUpdating
    /\ store[Name].value = MaxVal

\* C2: in a completed write every listener registered from its start to
\* its end had its predicate called exactly once with (new view, previous
\* view), and its setState called exactly once with the new view when the
\* predicate answered true and not at all when it answered false.
C2_OneNotificationPerQualifyingWrite ==
    Completed =>
        \A key \in Keys(Top.atStart) \cap Top.stayed :
            LET fn == EntryOf(Top.atStart, key).equalFn
                answers == Answers(Top.trace, key)
                calls == Notifications(Top.trace, key)
                expected == EqualFn(fn, View(NewStoreId, Top.newState), View(StoreId, Top.prev))
            IN  /\ Len(answers) = 1
                /\ answers[1].what = (IF expected THEN "true" ELSE "false")
                /\ Len(calls) = (IF expected THEN 1 ELSE 0)
                /\ \A n \in 1..Len(calls) : calls[n].what = "view"

\* A write over two listeners, one whose predicate answered true and one
\* whose predicate answered false.
C2_Witness ==
    /\ Completed
    /\ Len(Top.atStart) >= 2
    /\ \E e \in 1..Len(Top.trace) : Top.trace[e].what = "true"
    /\ \E e \in 1..Len(Top.trace) : Top.trace[e].what = "false"
    /\ \E e \in 1..Len(Top.trace) : Top.trace[e].fn.kind = "multiple"

\* The listeners of a completed write that use the hook's default predicate
\* over `sel` and were registered throughout.
DefaultListeners(sel) ==
    {key \in Keys(Top.atStart) \cap Top.stayed :
        EntryOf(Top.atStart, key).equalFn = DefaultFn(sel)}

Notified(key) == Len(Notifications(Top.trace, key)) = 1
NotNotified(key) == Len(Notifications(Top.trace, key)) = 0

\* C4: a subscriber with no equalFn whose select returns the array
\* [value, isUpdating] is notified by a write if and only if some element
\* of the new projection differs from the element at the same index of
\* the old one.
C4_ArrayNotifiedIffAnyElementDiffers ==
    Completed =>
        \A key \in DefaultListeners("array") :
            LET old == <<Top.prev.value, Top.prev.isUpdating>>
                new == <<Top.newState.value, Top.newState.isUpdating>>
                differs == \E n \in 1..2 : old[n] # new[n]
            IN  IF differs THEN Notified(key) ELSE NotNotified(key)

\* C5: a subscriber with no equalFn whose select returns a single value is
\* notified by a write if and only if select(new view) !== select(previous
\* view); an object result is compared by identity.
C5_ScalarNotifiedIffProjectionDiffers ==
    Completed =>
        /\ \A key \in DefaultListeners("value") :
              IF Top.newState.value # Top.prev.value THEN Notified(key) ELSE NotNotified(key)
        /\ \A key \in DefaultListeners("state") :
              IF Top.newState.ref # Top.prev.ref THEN Notified(key) ELSE NotNotified(key)
        /\ \A key \in DefaultListeners("store") : Notified(key)

\* A write taking the selected count from 0 to 1 with a subscriber on it,
\* which was notified.
C5_Witness ==
    /\ Completed
    /\ Top.prev.value = 0 /\ Top.newState.value = 1
    /\ \E key \in DefaultListeners("value") : Notified(key)

\* C9: when a synchronous action returns a state whose selected field is
\* unchanged, the write is committed all the same and no subscriber using
\* the default predicate on the unchanged field (or on an array of
\* unchanged fields) is notified.
C9_UnchangedFieldCommitsWithoutNotifying ==
    (Completed /\ ~Top.async) =>
        /\ store[Name] = Top.newState
        /\ Top.newState.value = Top.prev.value =>
              \A key \in DefaultListeners("value") : NotNotified(key)
        /\ Content(Top.newState) = Content(Top.prev) =>
              \A key \in DefaultListeners("array") : NotNotified(key)

\* A write of a new object equal field by field to the previous state,
\* with a subscriber on the count.
C9_Witness ==
    /\ Completed /\ ~Top.async
    /\ Top.newState.ref # Top.prev.ref
    /\ Content(Top.newState) = Content(Top.prev)
    /\ DefaultListeners("value") # {}
    /\ store[Name] = Top.newState

\* The tickets of the async writes assigned so far, and of those in flight.
CommittedTickets == {committed[n].ticket : n \in 1..Len(committed)}
PendingTickets == {pending[n].ticket : n \in 1..Len(pending)}

\* C6: when async actions are started before any of them resolves and
\* their promises fulfil, every one of them commits, once, in the order
\* the promises resolve, and the store then holds the value returned by
\* the action whose promise resolved last, whatever the order they were
\* started in.
C6_LastResolvedWins ==
    /\ [](/\ CommittedTickets \cup PendingTickets = 1..started
          /\ Cardinality(CommittedTickets) = Len(committed)
          /\ CommittedTickets \cap PendingTickets = {}
          /\ committed # <<>> =>
                Content(store[Name]) = committed[Len(committed)].value)
    /\ \A t \in 1..MaxAsync : (started >= t) ~> (t \in CommittedTickets)

\* Two actions in flight together resolve in the reverse of their start
\* order with different values, and the store holds the first one's.
C6_Witness ==
    /\ Len(committed) = 2
    /\ committed[1].ticket = 2 /\ committed[1].started = 2
    /\ committed[2].ticket = 1
    /\ committed[1].value # committed[2].value
    /\ Content(store[Name]) = committed[2].value

\* C7: an async reducer's result is computed from the state read when the
\* action was called, and on resolution it replaces the store's state
\* whole, whatever was committed between the call and the resolution.
C7_AsyncResultReplacesWholesale ==
    (Completed /\ Top.async) =>
        /\ store[Name] = Top.newState
        /\ Content(Top.newState) =
               Content(Reducer(Top.key, Top.state, Top.payload, 0))

\* A write committed between the call and the resolution is overwritten:
\* the count set in between is gone once the earlier toggle resolves.
C7_Witness ==
    /\ Completed /\ Top.async
    /\ Top.key = "toggleUpdating"
    /\ Top.prev.ref # Top.state.ref
    /\ Top.prev.value # Top.state.value
    /\ store[Name].value = Top.state.value
    /\ Content(store[Name]) # Content(Reducer(Top.key, Top.prev, Top.payload, 0))

\* The frames whose listener is running: its predicate, or its function.
Running == {n \in 1..Len(stack) : stack[n].phase \in {"equalFn", "setState"}}

\* C3: a listener that has been unregistered is not invoked again, neither
\* its predicate nor its function, by a later write or by a write that was
\* in progress and had not reached it: a listener that runs is registered,
\* with the predicate it was visited with, unless it was unregistered after
\* its visit began.
C3_UnregisteredListenerNotInvoked ==
    \A n \in Running :
        stack[n].unregistered
        \/ /\ Has(stateListeners, stack[n].listener.key)
           /\ stateListeners[IndexOf(stateListeners, stack[n].listener.key)] = stack[n].listener

\* A write of a StateStore is over; one of its listeners unregistered
\* another that the forEach had not reached, and the write never called it.
C3_Witness ==
    /\ Completed /\ Top.class
    /\ Top.trace # <<>>
    /\ \E key \in Keys(Top.atStart) \ Top.stayed :
          /\ ~Has(stateListeners, key)
          /\ \A n \in 1..Len(Top.trace) : Top.trace[n].key # key

\* C8: during a write the listeners are all evaluated and notified before
\* the new state is stored.  A predicate gets the view of the new state
\* first and the store, still holding the previous state, second; what a
\* predicate or a listener function reads from the store is the previous
\* state; the new state is in the store once the last listener is done.
C8_NotifyBeforeCommit ==
    /\ \A n \in 1..Len(stack) :
          stack[n].phase # "return" => store[Name].ref # stack[n].newState.ref
    /\ (InUserCode /\ ~Top.reentered) =>
          /\ store[Name] = Top.prev
          /\ Top.phase = "equalFn" =>
                Top.args = <<View(NewStoreId, Top.newState), View(StoreId, Top.prev)>>
    /\ Completed => (store[Name] = Top.newState /\ Top.i = Len(stateListeners))

\* The predicate of the second listener runs after the first listener was
\* notified of a different state, and the store holds the previous one.
C8_Witness ==
    /\ InUserCode /\ Top.phase = "equalFn" /\ Top.i = 2
    /\ ~Top.reentered
    /\ \E n \in 1..Len(Top.trace) : Top.trace[n].what \in {"view", "copy"}
    /\ Content(Top.newState) # Content(store[Name])
    /\ Top.args[2].test = Top.prev

\* C10: the Map holds at most one entry per listener, and subscribing a
\* listener that is present changes nothing: the entry set by the first
\* registration stays as it is, for the writes that follow.
C10_OneEntryPerListener ==
    /\ [](Cardinality(Keys(stateListeners)) = Len(stateListeners))
    /\ [][\A n \in 1..Len(stateListeners), m \in 1..Len(stateListeners') :
             stateListeners[n].key = stateListeners'[m].key =>
                stateListeners[n] = stateListeners'[m]]_vars

\* A listener subscribed with a predicate was subscribed again without
\* one; a later write runs the predicate of the first registration.
C10_Witness ==
    /\ lastSubscribe.present
    /\ lastSubscribe.equalFn = UndefinedFn
    /\ Len(stack) = 1 /\ Top.phase = "equalFn" /\ Top.ops = 0
    /\ Top.listener.key = lastSubscribe.key
    /\ Top.listener.equalFn = UserFn

\* C11: when a sync reducer throws, the caller of the action gets the
\* error as thrown, no predicate and no setState is called for that call,
\* and the state in the store and the Map of listeners stay as they were.
C11_ThrowingReducerChangesNothing ==
    /\ [](err.thrown = "reducer" => err.caught = "reducer")
    /\ [][err' # err =>
            /\ err'.thrown = "reducer"
            /\ store' = store
            /\ stateListeners' = stateListeners
            /\ stack' = stack
            /\ storeState' = storeState]_vars

\* A reducer threw after earlier writes and with listeners registered:
\* the caller has the error and the earlier state is in the store.
C11_Witness ==
    /\ err.thrown = "reducer" /\ err.caught = "reducer"
    /\ TopLevel
    /\ stateListeners # <<>>
    /\ Content(store[Name]) # Content(initialState)

\* C12: when a predicate or a listener function throws during a write,
\* the write is left at once and the error reaches the caller of the
\* operation that started it: no listener after the one that threw is
\* called for that write.
C12_ThrowingListenerAbortsWrite ==
    /\ (err.thrown # "" /\ err.caught = "") => (stack # <<>> /\ Top.phase = "thrown")
    /\ TopLevel => err.caught = err.thrown
    /\ (stack # <<>> /\ Top.phase = "thrown") =>
          /\ Has(stateListeners, Top.listener.key)
          /\ IndexOf(stateListeners, Top.listener.key) = Top.i
          /\ \A n \in 1..Len(Top.trace) :
                /\ Has(stateListeners, Top.trace[n].key)
                /\ IndexOf(stateListeners, Top.trace[n].key) <= Top.i

\* The function of the first listener threw; the second one, registered
\* all along, was not called.
C12_Witness ==
    /\ stack # <<>> /\ Top.phase = "thrown"
    /\ err.thrown = "setState"
    /\ Top.i = 1
    /\ Len(stateListeners) = 2
    /\ \A n \in 1..Len(Top.trace) : Top.trace[n].key = stateListeners[1].key

\* The async actions that ended without a write.
RejectedTickets == (1..started) \ (CommittedTickets \cup PendingTickets)

\* C13: when the promise of an async reducer rejects, the promise of the
\* public action rejects with the same error, nothing is assigned and no
\* listener is called for that call; the store works on: the sync and
\* async actions that follow assign their state and notify as before.
C13_RejectionCommitsNothing ==
    /\ [](err.thrown = "rejected" =>
             /\ err.caught = "rejected"
             /\ err.ticket \in RejectedTickets)
    /\ [][Len(pending') < Len(pending) /\ err'.ticket \notin PendingTickets' /\ err' # err =>
             /\ store' = store
             /\ stack' = stack
             /\ storeState' = storeState
             /\ stateListeners' = stateListeners
             /\ committed' = committed]_vars
    /\ [](Completed /\ RejectedTickets # {} =>
             /\ store[Name] = Top.newState
             /\ \A key \in Keys(Top.atStart) :
                   LET changed == Top.newState.value # Top.prev.value
                   IN  /\ Len(Answers(Top.trace, key)) = 1
                       /\ Len(Notifications(Top.trace, key)) = (IF changed THEN 1 ELSE 0)
                       /\ key = Observed /\ changed => storeState = Content(Top.newState))

\* After one async action was rejected, a later one has assigned its
\* state and notified the component.
C13_Witness ==
    /\ RejectedTickets # {}
    /\ Completed /\ Top.async
    /\ Notifications(Top.trace, Observed) # <<>>
    /\ storeState = Content(store[Name])
    /\ err.thrown = "rejected"
    /\ err.ticket < Top.ticket

\* C14: an async action is written (setState, state, ...args); the store
\* passes it a setter and the current state, and every setState(newState)
\* assigns newState at once with one round of notifications: an action
\* whose reducer has made its one call of setState has one write in the
\* store, so that asyncActions.setCounterValueAsync(v) leaves the value
\* v there.
C14_SetterStyleCommits ==
    \A t \in (1..started) \ PendingTickets :
        /\ t \in CommittedTickets
        /\ err.ticket # t

\* C15: a call of a return-style async action makes one write and one
\* round of notifications, and makes them once the reducer's promise has
\* fulfilled: the call itself changes neither the store nor a local copy
\* nor the Map, and the write of an action comes when it is no longer in
\* flight, once.
C15_OneCommitAfterFulfilment ==
    /\ [][started' # started =>
             /\ store' = store
             /\ storeState' = storeState
             /\ stateListeners' = stateListeners
             /\ committed' = committed
             /\ stack' = stack]_vars
    /\ [](/\ Cardinality(CommittedTickets) = Len(committed)
          /\ CommittedTickets \cap PendingTickets = {})
    /\ [](Completed /\ Top.async =>
             /\ committed[Len(committed)].ticket = Top.ticket
             /\ \A key \in Keys(Top.atStart) :
                   /\ Len(Answers(Top.trace, key)) = 1
                   /\ Len(Notifications(Top.trace, key)) <= 1)

\* The first of two actions in flight has fulfilled: one write, one
\* notification of the component, and the second has written nothing.
C15_Witness ==
    /\ Completed /\ Top.async
    /\ started = 2
    /\ Len(pending) = 1
    /\ Len(committed) = 1
    /\ Len(Notifications(Top.trace, Observed)) = 1

ObservedAnswer ==
    IF Completed /\ Answers(Top.trace, Observed) # <<>>
    THEN Answers(Top.trace, Observed)[1].what
    ELSE ""

\* C17: the local copy of a component changes through a notification
\* only.  It is the snapshot of the first render until a write for which
\* the component's predicate answers true, and then the view of that
\* write; a write for which it answers false assigns the state in the
\* store and leaves the local copy, so what the hook returns, as it was.
C17_LocalCopyChangesByNotificationOnly ==
    /\ [][storeState' # storeState =>
             \/ /\ comp[Observed].status = "unmounted"
                /\ comp'[Observed].status = "rendered"
                /\ storeState' = JsonCopy(View(StoreId, store[Name]))
             \/ /\ TopLevel
                /\ ObservedAnswer' = "true"]_vars
    /\ [][(TopLevel /\ ObservedAnswer' = "true") =>
             storeState' = Content(store'[Name])]_vars
    /\ [][(TopLevel /\ ObservedAnswer' = "false") =>
             /\ storeState' = storeState
             /\ store'[Name] = Top'.newState]_vars

\* The component's predicate (a multiple of Multiple) answered false to a
\* write that changed the count: the store has the new count and the
\* hook still returns the old one.
C17_Witness ==
    /\ ObservedAnswer = "false"
    /\ comp[Observed].status = "mounted"
    /\ comp[Observed].props.equalFn = MultipleFn
    /\ useStoreReturn("value", storeState) # <<store[Name].value>>

\* C18: the object createStore returned is the store for good: read
\* through it when no write is in progress, store[name] is the state of
\* the last write that was made, sync or async, or initialState before
\* the first.  It starts as initialState, changes by the assignment of a
\* write only, and has the state of a write when that write returns.
C18_StoreObjectStaysLive ==
    /\ store = [test |-> initialState]
    /\ [][store' # store =>
             /\ stack' # <<>> /\ Top'.phase = "return"
             /\ store'[Name] = Top'.newState
             /\ DOMAIN store' = DOMAIN store]_vars
    /\ [](Completed => View(StoreId, store[Name]).test = Top.newState)

\* An async action's write has returned after a sync write made while it
\* was in flight: the store object holds the async action's state.
C18_Witness ==
    /\ Completed /\ Top.async
    /\ Top.prev.ref # Top.state.ref
    /\ Top.prev.ref # initialState.ref
    /\ View(StoreId, store[Name]).test = Top.newState
    /\ Content(store[Name]) # Content(Top.prev)

\* The components registered when the action of the top frame was called
\* and no longer when its write began.
Unsubscribed == Keys(Top.atCall) \ Keys(Top.atStart)

\* C19: when a component unmounts while an async action is in flight, the
\* action's resolution still assigns its result to the store and notifies
\* the listeners that remain, and calls neither the predicate nor the
\* setState of the component that is gone.
C19_UnmountedDuringFlightNotCalled ==
    (Completed /\ Top.async) =>
        /\ store[Name] = Top.newState
        /\ \A key \in Unsubscribed :
              Answers(Top.trace, key) = <<>> /\ Notifications(Top.trace, key) = <<>>
        /\ \A key \in Keys(Top.atStart) :
              /\ Len(Answers(Top.trace, key)) = 1
              /\ Len(Notifications(Top.trace, key))
                     = (IF Top.newState.value # Top.prev.value THEN 1 ELSE 0)

\* Of two components mounted when the action was called one unmounted
\* before it resolved; the resolution changed the count and notified the
\* other.
C19_Witness ==
    /\ Completed /\ Top.async
    /\ Unsubscribed # {}
    /\ \E key \in Keys(Top.atStart) : Len(Notifications(Top.trace, key)) = 1
    /\ Content(store[Name]) # Content(Top.prev)

\* C20: a call of a sync action with its arguments calls the reducer once,
\* with the state the store holds at the call followed by the arguments;
\* when the call returns the reducer's result is in the store and every
\* listener has been asked, and notified if its predicate said so.  The
\* caller passes the arguments only.
C20_SyncActionAppliesReducerToCurrentState ==
    (Completed /\ ~Top.async /\ ~Top.class) =>
        /\ Top.state = Top.prev
        /\ Content(Top.newState) = Content(Reducer(Top.key, Top.prev, Top.payload, 0))
        /\ Top.payload \in Payloads(Top.key)
        /\ store[Name] = Top.newState
        /\ \A key \in Keys(Top.atStart) :
              /\ Len(Answers(Top.trace, key)) = 1
              /\ Len(Notifications(Top.trace, key))
                     = (IF Answers(Top.trace, key)[1].what = "true" THEN 1 ELSE 0)

\* setCounterValue(MaxVal) was called on a store whose state earlier calls
\* had changed; the count is set, the other field kept, and a listener
\* was notified.
C20_Witness ==
    /\ Completed /\ ~Top.async
    /\ Top.key = "setCounterValue" /\ Top.payload = MaxVal
    /\ Top.prev.isUpdating /\ Top.prev.value # MaxVal
    /\ store[Name].value = MaxVal /\ store[Name].isUpdating
    /\ \E key \in Keys(Top.atStart) : Len(Notifications(Top.trace, key)) = 1

\* ------------------------------------------------- the registry and mounts
Mounted == {l \in Listeners : comp[l].status = "mounted"}

\* C21: the Map holds exactly the components that are mounted and whose
\* effect has run, one entry each, keyed by the component's own setter and
\* holding the predicate of its props; once every component has unmounted
\* the Map is empty.
C21_RegistryIsTheMountedComponents ==
    /\ Keys(stateListeners) = Mounted
    /\ Len(stateListeners) = Cardinality(Mounted)
    /\ \A n \in 1..Len(stateListeners) :
           stateListeners[n].equalFn = comp[stateListeners[n].key].props.equalFn
    /\ (\A l \in Listeners : comp[l].status = "unmounted") => stateListeners = <<>>

\* Every component is unmounted and the Map is empty, after the observed
\* one rendered a changed store, mounted and unmounted again.
C21_Witness ==
    /\ \A l \in Listeners : comp[l].status = "unmounted"
    /\ stateListeners = <<>>
    /\ storeState # Content(initialState)

\* --------------------------------------------- entries without a predicate
\* The entries of the Map when the walk of `frame` began that have no
\* predicate and stayed registered until its end.
Unconditional(frame) ==
    {n \in 1..Len(frame.atStart) :
        /\ frame.atStart[n].equalFn = UndefinedFn
        /\ frame.atStart[n].key \in frame.stayed}

\* C22: an entry without a predicate is notified on every write, whatever
\* the old and the new value are: no predicate is asked for it, and its
\* listener is called exactly once, with newStore itself.
C22_NoPredicateAlwaysNotified ==
    Completed =>
        \A n \in Unconditional(Top) :
            /\ Answers(Top.trace, Top.atStart[n].key) = <<>>
            /\ Notifications(Top.trace, Top.atStart[n].key)
                   = <<Event(Top.atStart[n], "view")>>

\* A write of a state equal to the one already stored has notified an
\* entry without a predicate, registered after one with a predicate.
C22_Witness ==
    /\ Completed /\ Top.class
    /\ Content(Top.newState) = Content(Top.prev)
    /\ \E n \in Unconditional(Top) :
           /\ n > 1
           /\ Top.atStart[1].equalFn = UserFn
           /\ Len(Notifications(Top.trace, Top.atStart[n].key)) = 1

\* ----------------------------------------------- what subscribe returns
\* C23: every call of subscribe(listener, equalFn), one with a listener
\* that is already registered included, returns the function that
\* unsubscribes the listener.
C23_SubscribeReturnsUnsubscribe ==
    lastSubscribe.key \in Listeners => lastSubscribe.returned = "unsubscribe"

\* ------------------------------------------------------ the store's shape
\* C24: in every reachable state the store object has exactly one key, the
\* name it was created with; actions, writes, mounts, unmounts and errors
\* replace the value under that key and nothing else.
C24_StoreHasOneKey ==
    /\ DOMAIN store = {Name}
    /\ DOMAIN store[Name] = DOMAIN initialState

\* After a write that changed the state and a reducer that threw, with a
\* component registered, the store still has its one key.
C24_Witness ==
    /\ TopLevel
    /\ DOMAIN store = {Name}
    /\ Content(store[Name]) # Content(initialState)
    /\ err.thrown # ""
    /\ stateListeners # <<>>

\* ------------------------------------------------------- nested actions
\* The first inner action of a reducer in progress has made its write.
InnerCompleted ==
    /\ Len(stack) = 2
    /\ stack[1].phase = "reducer"
    /\ ~stack[1].reentered
    /\ Top.phase = "return"

\* The action during which another action was called has made its write.
OuterCompleted ==
    /\ Len(stack) = 1
    /\ Completed
    /\ Top.reentered

\* C25: when a reducer calls another action of the store while it runs,
\* the inner action notifies the listeners and commits, the outer reducer's
\* state parameter stays the state from before the inner call, and when
\* the outer action returns the store holds the outer reducer's result
\* computed from that parameter: the inner commit is overwritten.
C25_NestedActionIsOverwritten ==
    /\ InnerCompleted =>
          /\ store[Name] = Top.newState
          /\ stack[1].state = Top.prev
          /\ \A key \in Keys(Top.atStart) :
                /\ Len(Answers(Top.trace, key)) = 1
                /\ Len(Notifications(Top.trace, key))
                       = (IF Answers(Top.trace, key)[1].what = "true" THEN 1 ELSE 0)
    /\ OuterCompleted =>
          /\ store[Name] = Top.newState
          /\ Content(Top.newState)
                 = Content(Reducer(Top.key, Top.state, Top.payload, 0))

\* toggleUpdating called setCounterValue while it ran: the store holds the
\* toggled flag with the count from before the inner call, and a listener
\* that had been told of the inner count was told of the old one again.
C25_Witness ==
    /\ OuterCompleted
    /\ Top.key = "toggleUpdating"
    /\ Top.prev.value # Top.state.value
    /\ store[Name].value = Top.state.value
    /\ store[Name].isUpdating # Top.state.isUpdating
    /\ \E key \in Keys(Top.atStart) : Len(Notifications(Top.trace, key)) = 1

\* ------------------------------------------- how often a predicate is called
\* The calls of the predicate of component l in the write of `frame`.
CallCount(frame, l) == Len(Answers(frame.trace, l))

\* C26: a component's predicate is not called when the component renders
\* or mounts, nor when it unmounts; each write calls it exactly once while
\* the component is registered and not at all when it is not, so that its
\* calls number the writes made while it was registered.
C26_PredicateCalledOncePerWrite ==
    /\ [](Completed =>
            \A l \in Listeners :
                CallCount(Top, l) = (IF l \in Keys(Top.atStart) THEN 1 ELSE 0))
    /\ [][comp' # comp => (stack = <<>> /\ stack' = <<>> /\ store' = store)]_vars

\* A write has called the predicate of a registered component once and
\* that of the observed one, which had mounted and unmounted, not at all.
C26_Witness ==
    /\ Completed
    /\ comp[Observed].status = "unmounted"
    /\ storeState # Content(initialState)
    /\ CallCount(Top, Observed) = 0
    /\ \E l \in Keys(Top.atStart) : CallCount(Top, l) = 1
    /\ Content(Top.newState) # Content(Top.prev)

\* ------------------------------------------------- the order of the calls
\* The place of a listener in the Map when the walk of `frame` began:
\* entries are kept in the order of their registration.
Position(frame, key) == IndexOf(frame.atStart, key)

\* The forEach is through with an entry: its predicate, if it has one, was
\* called once and has answered, and its listener was called once if the
\* answer was true or there was no predicate, and has returned.
EntryDone(frame, entry) ==
    IF entry.equalFn = UndefinedFn
    THEN /\ Answers(frame.trace, entry.key) = <<>>
         /\ Len(Notifications(frame.trace, entry.key)) = 1
    ELSE /\ Len(Answers(frame.trace, entry.key)) = 1
         /\ Len(Notifications(frame.trace, entry.key))
                = (IF Answers(frame.trace, entry.key)[1].what = "true" THEN 1 ELSE 0)

\* C27: within one write the listeners are called in the order of their
\* registration, and the forEach is through with one listener, predicate
\* and callback, before the predicate of the next one is called.
C27_ListenersCalledInRegistrationOrder ==
    stack # <<>> =>
        /\ \A m, n \in 1..Len(Top.trace) :
               m < n => Position(Top, Top.trace[m].key) <= Position(Top, Top.trace[n].key)
        /\ \A m \in 1..Len(Top.trace) : Position(Top, Top.trace[m].key) <= Top.i
        /\ Top.phase = "equalFn" =>
               \A m \in 1..Len(Top.trace) : Position(Top, Top.trace[m].key) < Top.i
        /\ \A n \in 1..(Top.i - 1) : EntryDone(Top, Top.atStart[n])

\* The predicate of the second listener is running; the first, registered
\* earlier though its key is the greater, was asked and notified before.
C27_Witness ==
    /\ stack # <<>>
    /\ Top.phase = "equalFn" /\ Top.i = 2
    /\ Top.atStart[1].key > Top.atStart[2].key
    /\ Top.atStart[1].equalFn = UserFn
    /\ Len(Notifications(Top.trace, Top.atStart[1].key)) = 1

\* ------------------------------------------------ what unsubscribe changes
\* The entries of a Map other than the one of `key`, in their order.
Others(listeners, key) == SelectSeq(listeners, LAMBDA e : e.key # key)

\* C28: unsubscribe(listener) removes the listener's entry when there is
\* one and changes nothing when there is none; the other entries, their
\* order, the stored state and the store's name stay as they are, and a
\* second call changes nothing more.
C28_UnsubscribeRemovesOneEntryOnly ==
    /\ [](\A l \in Listeners :
            /\ MapDelete(stateListeners, l) = Others(stateListeners, l)
            /\ ~Has(stateListeners, l) => MapDelete(stateListeners, l) = stateListeners
            /\ MapDelete(MapDelete(stateListeners, l), l) = MapDelete(stateListeners, l))
    /\ [][Len(stateListeners') < Len(stateListeners) =>
            /\ \E l \in Keys(stateListeners) :
                   stateListeners' = Others(stateListeners, l)
            /\ Len(stateListeners') = Len(stateListeners) - 1
            /\ store' = store]_vars

\* Of two registered listeners the one subscribed last has been
\* unsubscribed after a write; the other one's entry is still there.
C28_Witness ==
    /\ TopLevel
    /\ lastSubscribe.key \in Listeners
    /\ ~lastSubscribe.present
    /\ Len(stateListeners) = 1
    /\ ~Has(stateListeners, lastSubscribe.key)
    /\ Content(store[Name]) # Content(initialState)

\* ------------------------------------------------ a write left by an error
\* User code of a listener has thrown in the write of the top frame.
Thrown == stack # <<>> /\ Top.phase = "thrown"

\* C29: when a predicate or a listener throws during a write the new state
\* is not assigned: the store holds the state from before the write when
\* the error leaves it and afterwards, although the listeners visited
\* before the one that threw have been asked, and notified with the new
\* state where due.
C29_ThrowLeavesStoreUncommitted ==
    /\ [](Thrown =>
            /\ store[Name] = Top.prev
            /\ store[Name].ref # Top.newState.ref
            /\ \A n \in 1..(Top.i - 1) : EntryDone(Top, Top.atStart[n]))
    /\ [][Thrown => store' = store]_vars

\* The second listener threw after the first had been notified of a state
\* that differs from the one the store still holds.
C29_Witness ==
    /\ Thrown
    /\ Top.i = 2
    /\ Len(Notifications(Top.trace, Top.atStart[1].key)) = 1
    /\ Content(Top.newState) # Content(store[Name])

\* ------------------------------------------------------ re-entrant writes
\* Write W2, started by the predicate of a listener of write W1, and the
\* first one that predicate started: W1 is the frame below.
InReentrantWrite ==
    /\ Len(stack) = 2
    /\ stack[1].phase = "equalFn"
    /\ ~stack[1].reentered

\* C30: when the predicate of a listener calls a sync action while write
\* W1 is walking the listeners, the reducer of the re-entrant write W2 is
\* handed the state from before W1; W2 asks and notifies the listeners,
\* those W1 has not reached yet included, and is assigned first; W1 goes
\* on and its assignment replaces W2's, so that when the outer action
\* returns the store holds W1's state, computed without W2's.
C30_ReentrantWriteIsLost ==
    /\ InReentrantWrite =>
          /\ Top.state = stack[1].prev
          /\ Top.prev = stack[1].prev
          /\ Content(Top.newState)
                 = Content(Reducer(Top.key, stack[1].prev, Top.payload, 0))
    /\ (InReentrantWrite /\ Top.phase = "return") =>
          /\ store[Name] = Top.newState
          /\ \A n \in 1..Len(Top.atStart) : EntryDone(Top, Top.atStart[n])
          /\ \A n \in (stack[1].i + 1)..Len(stack[1].atStart) :
                /\ Answers(stack[1].trace, stack[1].atStart[n].key) = <<>>
                /\ Notifications(stack[1].trace, stack[1].atStart[n].key) = <<>>
    /\ (OuterCompleted /\ ~Top.class) =>
          /\ store[Name] = Top.newState
          /\ Top.state = Top.prev
          /\ Content(Top.newState)
                 = Content(Reducer(Top.key, Top.prev, Top.payload, 0))
          /\ \A n \in 1..Len(Top.atStart) : EntryDone(Top, Top.atStart[n])

\* toggleUpdating was walking the listeners when the predicate of the
\* second one changed the count: the observed component, first in the
\* Map, was notified of the new count, and the store holds the toggled
\* flag with the old count.
C30_Witness ==
    /\ OuterCompleted /\ ~Top.class
    /\ Top.key = "toggleUpdating"
    /\ Len(Top.atStart) = 2
    /\ Top.atStart[1].key = Observed
    /\ Top.atStart[2].equalFn = UserFn
    /\ store[Name].value = Top.prev.value
    /\ storeState.value # store[Name].value

\* ------------------------------------ a write between render and effect
\* The observed component has rendered and its effect has not run yet.
BeforeEffect == comp[Observed].status = "rendered"

\* C31: the hook copies the store at the first render and registers its
\* listener in the effect that follows.  A write made in between does not
\* reach the component: it is not in the Map yet, the effect registers it
\* without taking a new copy, and its local copy stays the one of the
\* render until a later write to which its predicate answers true.
C31_WriteBeforeEffectIsMissed ==
    /\ [](BeforeEffect => ~Has(stateListeners, Observed))
    /\ [][BeforeEffect => storeState' = storeState]_vars
    /\ [][(comp[Observed].status = "mounted" /\ storeState' # storeState) =>
             (TopLevel /\ ObservedAnswer' = "true")]_vars

\* The observed component selects the whole store, so that every write
\* made while it is registered notifies it; it is mounted and its copy
\* differs from the store: the write was made before its effect ran.
C31_Witness ==
    /\ TopLevel
    /\ comp[Observed].status = "mounted"
    /\ comp[Observed].props = [select |-> "store", equalFn |-> DefaultFn("store")]
    /\ Has(stateListeners, Observed)
    /\ storeState # Content(store[Name])

\* ----------------------------------------- components that select the store
\* The entries of the Map when the walk of `frame` began whose component
\* passed select = store => store and no predicate.
WholeStore(frame) ==
    {n \in 1..Len(frame.atStart) : frame.atStart[n].equalFn = DefaultFn("store")}

\* C32: a component that passes no predicate and selects the whole store
\* is notified by every write, one that assigns the very state the store
\* already holds included: newStore is a new object in every write, so
\* the default predicate finds the two selections different.
C32_WholeStoreSelectAlwaysNotified ==
    (Completed /\ ~Top.class) =>
        \A n \in WholeStore(Top) :
            /\ Answers(Top.trace, Top.atStart[n].key) = <<Event(Top.atStart[n], "true")>>
            /\ Notifications(Top.trace, Top.atStart[n].key) = <<Event(Top.atStart[n], "view")>>

\* An action that returns the state it was given has notified a
\* component that selects the whole store and left one that selects the
\* count alone.
C32_Witness ==
    /\ Completed /\ ~Top.class
    /\ Top.newState = Top.prev
    /\ \E n \in WholeStore(Top) : Len(Notifications(Top.trace, Top.atStart[n].key)) = 1
    /\ \E n \in 1..Len(Top.atStart) :
           /\ Top.atStart[n].equalFn = DefaultFn("value")
           /\ Notifications(Top.trace, Top.atStart[n].key) = <<>>

\* ------------------------------------- a listener registered during a write
\* The write of the top frame is over, and the one operation its listeners
\* started was the subscription of a new listener: the Map has the entries
\* it had when the walk began, and the new one after them.
SubscribedDuringWrite ==
    /\ Completed /\ Top.class
    /\ Top.ops = 1 /\ ~Top.reentered
    /\ Len(stateListeners) = Len(Top.atStart) + 1
    /\ SubSeq(stateListeners, 1, Len(Top.atStart)) = Top.atStart

\* C33: a listener that is subscribed while a write is walking the
\* listeners is visited by that same write: its predicate is asked and,
\* if it answers true or there is none, the listener is called, after the
\* listeners that were registered before it.
C33_SubscribedDuringWriteIsVisited ==
    SubscribedDuringWrite =>
        LET new == stateListeners[Len(stateListeners)]
        IN  /\ EntryDone(Top, new)
            /\ \A n \in 1..Len(Top.atStart) : EntryDone(Top, Top.atStart[n])
            /\ \A m, n \in 1..Len(Top.trace) :
                   (Top.trace[m].key = new.key /\ Top.trace[n].key # new.key) => n < m

\* The listener of the only entry subscribed a second listener with a
\* predicate; the same write asked that predicate and called the new
\* listener.
C33_Witness ==
    /\ SubscribedDuringWrite
    /\ Len(Top.atStart) = 1
    /\ stateListeners[2].equalFn = UserFn
    /\ Len(Notifications(Top.trace, stateListeners[2].key)) = 1
    /\ Len(Notifications(Top.trace, stateListeners[1].key)) = 1

\* ------------------------------------- StateStore beside the closure store
RECURSIVE RunClass(_)

\* The forEach of StateStore.updateState with listeners that return at
\* once: each call of a listener is followed by the rest of the walk.
RunClass(r) ==
    IF r.frame.phase = "setState"
    THEN RunClass(forEach([r.frame EXCEPT !.phase = "forEach"], r.react))
    ELSE r

\* A faulty variant: the walk of StateStore passes over the first entry.
ClassWrite_SkipsFirst(newState) ==
    RunClass(forEach([Frame("updateState", 0, store[Name], newState, 0, TRUE)
                          EXCEPT !.i = 1],
                     storeState)).frame

\* StateStore.updateState(newState) on a StateStore that has the Map and
\* the state the closure store has now (state-store.ts:48-63): the frame
\* it ends with.
ClassWrite(newState) ==
    RunClass(forEach(Frame("updateState", 0, store[Name], newState, 0, TRUE),
                     storeState)).frame

\* The value a listener was handed in a call of `frame`: the fields of
\* newStore, or those of its JSON copy.
Delivered(frame, event) ==
    IF event.what = "copy"
    THEN JsonCopy(View(NewStoreId, frame.newState))
    ELSE Content(frame.newState)

IsNotification(event) == event.what \in {"view", "copy"}

\* Two writes made the same calls in the same order: the same predicates
\* with the same answers, the same listeners.
SameCalls(a, b) ==
    /\ Len(a.trace) = Len(b.trace)
    /\ \A m \in 1..Len(a.trace) :
          /\ a.trace[m].key = b.trace[m].key
          /\ a.trace[m].fn = b.trace[m].fn
          /\ IsNotification(a.trace[m]) = IsNotification(b.trace[m])
          /\ ~IsNotification(a.trace[m]) => a.trace[m].what = b.trace[m].what

\* The listeners were handed views of equal value in the two writes.
SameViews(a, b) ==
    \A m \in 1..Len(a.trace) :
        (m <= Len(b.trace) /\ IsNotification(a.trace[m]) /\ IsNotification(b.trace[m])) =>
            Delivered(a, a.trace[m]) = Delivered(b, b.trace[m])

\* A sync action of the closure store is called from the event loop.
WriteStep == TopLevel /\ stack' # <<>> /\ ~stack'[1].class

\* A state whose values JSON writes and reads back unchanged.
JsonSafe(state) == JsonNumber(state.value) = state.value

\* The Map of the two stores after the same registration or
\* unregistration: subscribe beside the hook's effect, unsubscribe beside
\* its cleanup.
SameRegistry ==
    /\ Len(stateListeners') > Len(stateListeners) =>
          \E l \in Listeners :
              stateListeners' = Subscribed(stateListeners, l, comp'[l].props.equalFn)
    /\ Len(stateListeners') < Len(stateListeners) =>
          \E l \in Listeners : stateListeners' = MapDelete(stateListeners, l)

C35_FirstRenderStartsFromInitialState ==
    /\ [][(comp[Observed].status = "unmounted" /\ comp'[Observed].status = "rendered") =>
             storeState' = Content(initialState)]_vars
    /\ [][(comp[Observed].status # "unmounted" /\ storeState' # storeState) =>
             /\ stack' # <<>>
             /\ Notifications(Top'.trace, Observed) # <<>>
             /\ storeState' = Content(Top'.newState)]_vars

\* The observed component has rendered without a predicate, so that every
\* write since would have notified it: it holds the initial state and the
\* actions hold another, written before it rendered.
C35_Witness ==
    /\ TopLevel
    /\ comp[Observed].status = "rendered"
    /\ EntryOf(stateListeners, Observed).equalFn = UndefinedFn
    /\ storeState = Content(initialState)
    /\ Content(store[Name]) # Content(initialState)

\* ------------------------------------ the registry in the store of part_003
\* The components that rendered and have unmounted since.
Gone == {l \in Listeners : comp[l].status = "gone"}

\* C36: in the store of part_003 nothing removes an entry: the Map only
\* grows, and a component that has unmounted is still asked and notified
\* by every later write like any other entry; and a render that passes a
\* predicate stores it in the component's entry in place of the one the
\* entry had.
C36_EntriesAreNeverRemoved ==
    /\ [][/\ Len(stateListeners') >= Len(stateListeners)
          /\ \A n \in 1..Len(stateListeners) :
                 stateListeners'[n].key = stateListeners[n].key]_vars
    /\ [](Gone \subseteq Keys(stateListeners))
    /\ [](Completed =>
            \A n \in 1..Len(Top.atStart) : EntryDone(Top, Top.atStart[n]))
    /\ [][\A l \in Listeners :
            (/\ comp'[l] # comp[l]
             /\ comp'[l].status = "rendered"
             /\ comp'[l].props.equalFn # UndefinedFn) =>
                EntryOf(stateListeners', l).equalFn = comp'[l].props.equalFn]_vars

\* The observed component rendered with a predicate and unmounted; a
\* later write asked that predicate and called the component's setter
\* with the state written.
C36_Witness ==
    /\ Completed
    /\ Observed \in Gone
    /\ comp[Observed].props.equalFn = MultipleFn
    /\ Answers(Top.trace, Observed) = <<Event([key |-> Observed, equalFn |-> MultipleFn], "true")>>
    /\ Len(Notifications(Top.trace, Observed)) = 1
    /\ storeState = Content(Top.newState)
====
